---- MODULE Spec2Model ----
(***************************************************************************)
(* PII detection and de-identification engine                              *)
(* (backend/pii_redactor.py) driven by the upload surface (backend/app.py).*)
(*                                                                         *)
(* Text is a sequence of one-character strings.  Offsets reported in       *)
(* detections are Python's 0-based [start, end) offsets; positions used by *)
(* the matchers are 1-based indices into the sequence.  Confidence scores  *)
(* and thresholds are expressed in hundredths (0.95 is 95).                *)
(***************************************************************************)
EXTENDS Integers, Sequences, FiniteSets, TLC

VARIABLES
    processor,  \* the module-level EnhancedProcessor of app.py
    req,        \* per request: the position of upload_file and its locals
    last,       \* the latest call of _deidentify_text_enhanced
    call        \* a direct call of a validator: function, argument, result

vars == <<processor, req, last, call>>

(***************************************************************************)
(* Characters                                                              *)
(***************************************************************************)
DigitSeq == <<"0","1","2","3","4","5","6","7","8","9">>
UpperSeq == <<"A","B","C","D","E","F","G","H","I","J","K","L","M",
              "N","O","P","Q","R","S","T","U","V","W","X","Y","Z">>
LowerSeq == <<"a","b","c","d","e","f","g","h","i","j","k","l","m",
              "n","o","p","q","r","s","t","u","v","w","x","y","z">>

Range(s) == {s[i] : i \in DOMAIN s}

\* The element of a one-element set.  Only({e(v) : v \in {x}}) is e(x) with x
\* evaluated once, however often e uses it.
Only(S) == CHOOSE v \in S : TRUE

Digit == Range(DigitSeq)
Upper == Range(UpperSeq)
Lower == Range(LowerSeq)
Letter == Upper \cup Lower
\* \w of the re module, restricted to ASCII
WordChar == Digit \cup Letter \cup {"_"}
\* \s of the re module, restricted to the characters the inputs use
WhiteSpace == {" ", "\t", "\n"}

IndexOf(c, s) == CHOOSE i \in DOMAIN s : s[i] = c

\* int(ch) for a decimal digit
DigitVal(c) == IndexOf(c, DigitSeq) - 1

\* str.lower() and str.upper() on one character
LowerChar(c) == IF c \in Upper THEN LowerSeq[IndexOf(c, UpperSeq)] ELSE c
UpperChar(c) == IF c \in Lower THEN UpperSeq[IndexOf(c, LowerSeq)] ELSE c

ToLower(text) == [i \in 1..Len(text) |-> LowerChar(text[i])]
ToUpper(text) == [i \in 1..Len(text) |-> UpperChar(text[i])]

\* text[a:b] with Python's 0-based half-open offsets, clamped as Python does
Slice(text, a, b) ==
    LET lo == IF a > Len(text) THEN Len(text) ELSE a
        hi == IF b > Len(text) THEN Len(text) ELSE b
    IN  IF hi <= lo THEN <<>> ELSE SubSeq(text, lo + 1, hi)

\* sub in text
StartsAt(text, i, sub) ==
    /\ i + Len(sub) - 1 <= Len(text)
    /\ \A k \in 1..Len(sub) : text[i + k - 1] = sub[k]

Contains(text, sub) == \E i \in 1..(Len(text) + 1) : StartsAt(text, i, sub)

\* The character at 1-based position i, or "" outside the text
At(text, i) == IF i >= 1 /\ i <= Len(text) THEN text[i] ELSE ""

\* \b immediately before position i
Boundary(text, i) == (At(text, i - 1) \in WordChar) # (At(text, i) \in WordChar)

\* Length of the longest run of characters of S starting at position i
RECURSIVE Run(_, _, _)
Run(text, i, S) == IF At(text, i) \in S THEN 1 + Run(text, i + 1, S) ELSE 0

\* Exactly n characters of S start at position i
Exactly(text, i, S, n) == \A k \in 0..(n - 1) : At(text, i + k) \in S

\* re.sub(r"\D", "", s)
RECURSIVE OnlyDigits(_)
OnlyDigits(s) ==
    IF s = <<>> THEN <<>>
    ELSE IF Head(s) \in Digit THEN <<Head(s)>> \o OnlyDigits(Tail(s))
    ELSE OnlyDigits(Tail(s))

\* int(s) for a string of decimal digits
RECURSIVE IntOf(_)
IntOf(s) == IF s = <<>> THEN 0 ELSE 10 * IntOf(SubSeq(s, 1, Len(s) - 1)) + DigitVal(s[Len(s)])

\* str.split(sep) for a one-character separator
RECURSIVE SplitFrom(_, _, _, _)
SplitFrom(s, i, sep, cur) ==
    IF i > Len(s) THEN <<cur>>
    ELSE IF s[i] = sep THEN <<cur>> \o SplitFrom(s, i + 1, sep, <<>>)
    ELSE SplitFrom(s, i + 1, sep, Append(cur, s[i]))

Split(s, sep) == SplitFrom(s, 1, sep, <<>>)

\* sep.join(parts)
RECURSIVE Join(_, _)
Join(parts, sep) ==
    IF parts = <<>> THEN <<>>
    ELSE IF Len(parts) = 1 THEN parts[1]
    ELSE parts[1] \o sep \o Join(Tail(parts), sep)

\* ch * n
Repeat(c, n) == [i \in 1..n |-> c]

(***************************************************************************)
(* Validators                                                              *)
(***************************************************************************)
\* Multiplication table _d of the dihedral group D5 (row c, column k)
VerhoeffD ==
    << <<0,1,2,3,4,5,6,7,8,9>>, <<1,2,3,4,0,6,7,8,9,5>>, <<2,3,4,0,1,7,8,9,5,6>>,
       <<3,4,0,1,2,8,9,5,6,7>>, <<4,0,1,2,3,9,5,6,7,8>>, <<5,9,8,7,6,0,4,3,2,1>>,
       <<6,5,9,8,7,1,0,4,3,2>>, <<7,6,5,9,8,2,1,0,4,3>>, <<8,7,6,5,9,3,2,1,0,4>>,
       <<9,8,7,6,5,4,3,2,1,0>> >>

\* The permutation table with every row the identity
VerhoeffPIdentity == [i \in 1..8 |-> <<0,1,2,3,4,5,6,7,8,9>>]

\* Permutation table _p (row i % 8, column digit)
VerhoeffP ==
    << <<0,1,2,3,4,5,6,7,8,9>>, <<1,5,7,6,2,8,3,0,9,4>>, <<5,8,0,3,7,9,6,1,4,2>>,
       <<8,9,1,6,0,4,3,5,2,7>>, <<9,4,5,3,1,2,6,8,7,0>>, <<4,2,8,6,5,7,3,9,0,1>>,
       <<2,7,9,3,8,0,6,4,1,5>>, <<7,0,4,6,9,1,3,2,5,8>> >>

\* The running checksum c after the i rightmost characters of num
RECURSIVE VerhoeffFold(_, _)
VerhoeffFold(num, i) ==
    IF i = 0 THEN 0
    ELSE VerhoeffD[VerhoeffFold(num, i - 1) + 1]
                  [VerhoeffP[((i - 1) % 8) + 1][DigitVal(num[Len(num) - i + 1]) + 1] + 1]

\* int(item) raises on a non-digit and the handler returns False
verhoeff_validate(num) ==
    IF \E i \in DOMAIN num : num[i] \notin Digit THEN FALSE
    ELSE VerhoeffFold(num, Len(num)) = 0

\* The Luhn sum of the i rightmost digits
RECURSIVE LuhnSum(_, _)
LuhnSum(digits, i) ==
    IF i = 0 THEN 0
    ELSE LET d == DigitVal(digits[Len(digits) - i + 1])
             v == IF i % 2 = 0 THEN (IF 2 * d > 9 THEN 2 * d - 9 ELSE 2 * d) ELSE d
         IN  LuhnSum(digits, i - 1) + v

luhn_check(number) ==
    LET digits == OnlyDigits(number)
    IN  IF Len(digits) < 13 \/ Len(digits) > 19 THEN FALSE
        ELSE LuhnSum(digits, Len(digits)) % 10 = 0

validate_indian_phone(phone) ==
    LET digits == OnlyDigits(phone)
    IN  Len(digits) = 10 /\ digits[1] \in {"6", "7", "8", "9"}

\* "$" matches at the end of the string and before a final newline
AtDollar(s, n) == Len(s) = n \/ (Len(s) = n + 1 /\ s[n + 1] = "\n")

validate_ifsc(ifsc) ==
    LET u == ToUpper(ifsc)
    IN  /\ Exactly(u, 1, Upper, 4)
        /\ At(u, 5) = "0"
        /\ Exactly(u, 6, Upper \cup Digit, 6)
        /\ AtDollar(u, 11)

validate_voter_id(voter_id) ==
    LET u == ToUpper(voter_id)
    IN  /\ Exactly(u, 1, Upper, 3)
        /\ Exactly(u, 4, Digit, 7)
        /\ AtDollar(u, 10)

validate_driving_license(dl) ==
    LET u == ToUpper(dl)
    IN  /\ Exactly(u, 1, Upper, 2)
        /\ Exactly(u, 3, Digit, 2)
        /\ At(u, 5) = "/"
        /\ Exactly(u, 6, Digit, 6)
        /\ At(u, 12) = "/"
        /\ Exactly(u, 13, Digit, 4)
        /\ AtDollar(u, 16)

\* str.isdigit() on ASCII text
IsDigitStr(p) == p # <<>> /\ \A i \in DOMAIN p : p[i] \in Digit

\* s without its leading zeros
RECURSIVE StripZeros(_)
StripZeros(s) == IF s # <<>> /\ Head(s) = "0" THEN StripZeros(Tail(s)) ELSE s

\* 0 <= int(p) <= 255 for a digit string p of any length (int is unbounded)
IsOctet(p) == Len(StripZeros(p)) <= 3 /\ IntOf(StripZeros(p)) <= 255

\* The generator skips the parts that are not digit strings
validate_ip(ip) ==
    LET parts == Split(ip, ".")
    IN  /\ Len(parts) = 4
        /\ \A k \in DOMAIN parts : IsDigitStr(parts[k]) => IsOctet(parts[k])

IsLeap(y) == (y % 4 = 0 /\ y % 100 # 0) \/ y % 400 = 0

DaysInMonth(m, y) ==
    IF m = 2 THEN (IF IsLeap(y) THEN 29 ELSE 28)
    ELSE IF m \in {4, 6, 9, 11} THEN 30 ELSE 31

\* datetime.strptime(dob, '%d/%m/%Y') succeeds: one or two digits of day and
\* month, four digits of year, and a date of the proleptic calendar from year 1
validate_dob(dob) ==
    LET parts == Split(dob, "/")
    IN  /\ Len(parts) = 3
        /\ IsDigitStr(parts[1]) /\ Len(parts[1]) \in {1, 2}
        /\ IsDigitStr(parts[2]) /\ Len(parts[2]) \in {1, 2}
        /\ IsDigitStr(parts[3]) /\ Len(parts[3]) = 4
        /\ LET d == IntOf(parts[1])
               m == IntOf(parts[2])
               y == IntOf(parts[3])
           IN  /\ y >= 1
               /\ m >= 1 /\ m <= 12
               /\ d >= 1 /\ d <= DaysInMonth(m, y)

validate_medical_id(mid) ==
    LET u == ToUpper(mid)
    IN  /\ StartsAt(u, 1, <<"M", "E", "D">>)
        /\ Exactly(u, 4, Upper \cup Digit, 8)
        /\ AtDollar(u, 11)

(***************************************************************************)
(* ENHANCED_PII_PATTERNS: each matcher gives, for a start position i, the  *)
(* position just after the match the regex engine finds there, or 0.       *)
(***************************************************************************)
\* Dictionary order of ENHANCED_PII_PATTERNS
PiiTypeOrder ==
    <<"aadhaar", "pan", "credit_card", "email", "phone", "ifsc", "bank_account",
      "voter_id", "driving_license", "ip_address", "dob", "medical_id">>

PiiTypes == Range(PiiTypeOrder)

\* \b(?:(\d{4}\s\d{4}\s\d{4})|(\d{12}))\b
MatchAadhaar(text, i) ==
    IF ~Boundary(text, i) THEN 0
    ELSE IF /\ Exactly(text, i, Digit, 4) /\ At(text, i + 4) \in WhiteSpace
            /\ Exactly(text, i + 5, Digit, 4) /\ At(text, i + 9) \in WhiteSpace
            /\ Exactly(text, i + 10, Digit, 4) /\ Boundary(text, i + 14)
         THEN i + 14
    ELSE IF Exactly(text, i, Digit, 12) /\ Boundary(text, i + 12) THEN i + 12
    ELSE 0

\* \b([A-Z]{5}[0-9]{4}[A-Z])\b
MatchPan(text, i) ==
    IF /\ Boundary(text, i) /\ Exactly(text, i, Upper, 5)
       /\ Exactly(text, i + 5, Digit, 4) /\ At(text, i + 9) \in Upper
       /\ Boundary(text, i + 10)
    THEN i + 10 ELSE 0

\* \b(?:\d[ -]*?){13,19}\b : the repetition is greedy, the separators lazy.
\* CardReps is entered before repetition count + 1, CardSeps inside repetition
\* count after its digit; each tries the engine's alternatives in its order.
RECURSIVE CardReps(_, _, _), CardSeps(_, _, _)
CardReps(text, pos, count) ==
    Only({ IF more # 0 THEN more
           ELSE IF count >= 13 /\ Boundary(text, pos) THEN pos
           ELSE 0 :
           more \in { IF count < 19 /\ At(text, pos) \in Digit
                      THEN CardSeps(text, pos + 1, count + 1) ELSE 0 } })

CardSeps(text, pos, count) ==
    Only({ IF cont # 0 THEN cont
           ELSE IF At(text, pos) \in {" ", "-"} THEN CardSeps(text, pos + 1, count)
           ELSE 0 :
           cont \in { CardReps(text, pos, count) } })

MatchCreditCard(text, i) == IF Boundary(text, i) THEN CardReps(text, i, 0) ELSE 0

EmailLocal == Letter \cup Digit \cup {".", "_", "%", "+", "-"}
EmailDomain == Letter \cup Digit \cup {".", "-"}

\* \b[A-Za-z0-9._%+-]+@[A-Za-z0-9.-]+\.[A-Za-z]{2,}\b : the domain run is
\* given back one character at a time until "." and a whole run of two or
\* more letters ending at a word boundary follow it.
EmailTail(text, p) ==
    LET m == Run(text, p + 1, Letter)
    IN  IF At(text, p) = "." /\ m >= 2 /\ Boundary(text, p + 1 + m) THEN p + 1 + m ELSE 0

MatchEmail(text, i) ==
    LET n  == Run(text, i, EmailLocal)
        ds == i + n + 1
        dn == Run(text, ds, EmailDomain)
        ks == {k \in 1..dn : EmailTail(text, ds + k) # 0}
    IN  IF Boundary(text, i) /\ n >= 1 /\ At(text, i + n) = "@" /\ ks # {}
        THEN EmailTail(text, ds + (CHOOSE k \in ks : \A j \in ks : j <= k))
        ELSE 0

PhoneSep == {"-"} \cup WhiteSpace
PhoneLead == {"6", "7", "8", "9"}

\* (?:[6-9]\d{9}|[6-9]\d{2}[-\s]\d{3}[-\s]\d{4})\b
PhoneCore(text, j) ==
    IF At(text, j) \in PhoneLead /\ Exactly(text, j + 1, Digit, 9) /\ Boundary(text, j + 10)
    THEN j + 10
    ELSE IF /\ At(text, j) \in PhoneLead /\ Exactly(text, j + 1, Digit, 2)
            /\ At(text, j + 3) \in PhoneSep /\ Exactly(text, j + 4, Digit, 3)
            /\ At(text, j + 7) \in PhoneSep /\ Exactly(text, j + 8, Digit, 4)
            /\ Boundary(text, j + 12)
         THEN j + 12
    ELSE 0

\* \b(?:\+91[-\s]?)?(...)\b : the optional groups are tried present first
MatchPhone(text, i) ==
    LET withSep == IF StartsAt(text, i, <<"+", "9", "1">>) /\ At(text, i + 3) \in PhoneSep
                   THEN PhoneCore(text, i + 4) ELSE 0
        noSep   == IF StartsAt(text, i, <<"+", "9", "1">>)
                   THEN PhoneCore(text, i + 3) ELSE 0
    IN  IF ~Boundary(text, i) THEN 0
        ELSE IF withSep # 0 THEN withSep
        ELSE IF noSep # 0 THEN noSep
        ELSE PhoneCore(text, i)

\* \b([A-Z]{4}0[A-Z0-9]{6})\b
MatchIfsc(text, i) ==
    IF /\ Boundary(text, i) /\ Exactly(text, i, Upper, 4) /\ At(text, i + 4) = "0"
       /\ Exactly(text, i + 5, Upper \cup Digit, 6) /\ Boundary(text, i + 11)
    THEN i + 11 ELSE 0

\* \b\d{9,18}\b
MatchBankAccount(text, i) ==
    LET n == Run(text, i, Digit)
    IN  IF Boundary(text, i) /\ n >= 9 /\ n <= 18 /\ Boundary(text, i + n)
        THEN i + n ELSE 0

\* \b([A-Z]{3}\d{7})\b
MatchVoterId(text, i) ==
    IF /\ Boundary(text, i) /\ Exactly(text, i, Upper, 3)
       /\ Exactly(text, i + 3, Digit, 7) /\ Boundary(text, i + 10)
    THEN i + 10 ELSE 0

\* \b([A-Z]{2}\d{2}/\d{6}/\d{4})\b
MatchDrivingLicense(text, i) ==
    IF /\ Boundary(text, i) /\ Exactly(text, i, Upper, 2) /\ Exactly(text, i + 2, Digit, 2)
       /\ At(text, i + 4) = "/" /\ Exactly(text, i + 5, Digit, 6)
       /\ At(text, i + 11) = "/" /\ Exactly(text, i + 12, Digit, 4)
       /\ Boundary(text, i + 16)
    THEN i + 16 ELSE 0

\* One (?:\d{1,3}\.) group at position p: the position after its dot, or 0
IpGroup(text, p) ==
    LET n == Run(text, p, Digit)
    IN  IF p # 0 /\ n >= 1 /\ n <= 3 /\ At(text, p + n) = "." THEN p + n + 1 ELSE 0

\* \b(?:\d{1,3}\.){3}\d{1,3}\b
MatchIpAddress(text, i) ==
    LET p4 == IpGroup(text, IpGroup(text, IpGroup(text, i)))
        n  == Run(text, p4, Digit)
    IN  IF Boundary(text, i) /\ p4 # 0 /\ n >= 1 /\ n <= 3 /\ Boundary(text, p4 + n)
        THEN p4 + n ELSE 0

\* \b(\d{2}/\d{2}/\d{4})\b
MatchDob(text, i) ==
    IF /\ Boundary(text, i) /\ Exactly(text, i, Digit, 2) /\ At(text, i + 2) = "/"
       /\ Exactly(text, i + 3, Digit, 2) /\ At(text, i + 5) = "/"
       /\ Exactly(text, i + 6, Digit, 4) /\ Boundary(text, i + 10)
    THEN i + 10 ELSE 0

\* \b(MED[A-Z0-9]{8})\b
MatchMedicalId(text, i) ==
    IF /\ Boundary(text, i) /\ StartsAt(text, i, <<"M", "E", "D">>)
       /\ Exactly(text, i + 3, Upper \cup Digit, 8) /\ Boundary(text, i + 11)
    THEN i + 11 ELSE 0

ENHANCED_PII_PATTERNS(pii_type, text, i) ==
    CASE pii_type = "aadhaar"         -> MatchAadhaar(text, i)
      [] pii_type = "pan"             -> MatchPan(text, i)
      [] pii_type = "credit_card"     -> MatchCreditCard(text, i)
      [] pii_type = "email"           -> MatchEmail(text, i)
      [] pii_type = "phone"           -> MatchPhone(text, i)
      [] pii_type = "ifsc"            -> MatchIfsc(text, i)
      [] pii_type = "bank_account"    -> MatchBankAccount(text, i)
      [] pii_type = "voter_id"        -> MatchVoterId(text, i)
      [] pii_type = "driving_license" -> MatchDrivingLicense(text, i)
      [] pii_type = "ip_address"      -> MatchIpAddress(text, i)
      [] pii_type = "dob"             -> MatchDob(text, i)
      [] pii_type = "medical_id"      -> MatchMedicalId(text, i)

\* The first position from i on where the pattern matches, or 0
NextStart(pii_type, text, i) ==
    Only({ IF starts = {} THEN 0
           ELSE CHOOSE j \in starts : \A k \in starts : j <= k :
           starts \in { {j \in i..Len(text) :
                            ENHANCED_PII_PATTERNS(pii_type, text, j) # 0} } })

\* finditer reporting the engine's 1-based positions as the offsets
RECURSIVE FindIterOneBased(_, _, _)
FindIterOneBased(pii_type, text, i) ==
    Only({ IF j = 0 THEN <<>>
           ELSE Only({ <<[start |-> j, end |-> e, group |-> SubSeq(text, j, e - 1)]>>
                       \o FindIterOneBased(pii_type, text, e) :
                       e \in { ENHANCED_PII_PATTERNS(pii_type, text, j) } }) :
           j \in { NextStart(pii_type, text, i) } })

\* pattern.finditer(text): leftmost matches, each search resuming where the
\* previous match ended.  A match is its start() and end(), 0-based [start,
\* end), and its group(0), the characters the engine consumed.
RECURSIVE FindIter(_, _, _)
FindIter(pii_type, text, i) ==
    Only({ IF j = 0 THEN <<>>
           ELSE Only({ <<[start |-> j - 1, end |-> e - 1, group |-> SubSeq(text, j, e - 1)]>>
                       \o FindIter(pii_type, text, e) :
                       e \in { ENHANCED_PII_PATTERNS(pii_type, text, j) } }) :
           j \in { NextStart(pii_type, text, i) } })

(***************************************************************************)
(* ENHANCED_DEIDENTIFY: the masking functions                              *)
(***************************************************************************)
\* The number of digits among the first k characters of s
RECURSIVE DigitsUpTo(_, _)
DigitsUpTo(s, k) ==
    IF k = 0 THEN 0
    ELSE DigitsUpTo(s, k - 1) + (IF s[k] \in Digit THEN 1 ELSE 0)

\* Every digit but the last four becomes X; other characters stay in place
KeepLastFour(s) ==
    LET n == Len(OnlyDigits(s))
    IN  [k \in 1..Len(s) |->
            IF s[k] \in Digit /\ DigitsUpTo(s, k) <= n - 4 THEN "X" ELSE s[k]]

mask_credit_card_enhanced(cc) ==
    IF Len(OnlyDigits(cc)) < 13 THEN cc ELSE KeepLastFour(cc)

mask_phone_enhanced(phone) ==
    IF Len(OnlyDigits(phone)) < 10 THEN phone ELSE KeepLastFour(phone)

\* The first 12 characters of hashlib.sha256(s.encode("utf-8")).hexdigest(),
\* tabulated for the values the documents below hold
Sha256Hex(s) ==
    CASE s = <<"M","E","D","2","1","B","3","4","8","3","B">> ->
           <<"2","8","9","6","4","6","0","7","2","d","5","4">>
      [] s = <<"1","2","3","4","5","6","7","8","9","0","1","2">> ->
           <<"2","a","3","3","3","4","9","e","7","e","6","0">>
      [] s = <<"1","2","3","4","5","6","7","8","9">> ->
           <<"1","5","e","2","b","0","d","3","c","3","3","8">>
      [] s = <<"9","8","7","6","5","4","3","2","1","0">> ->
           <<"7","6","1","9","e","e","8","c","e","a","4","9">>
      [] s = <<"2","3","4","5","6","7","8","9","0","1","2","4">> ->
           <<"4","6","0","7","e","a","e","3","c","5","a","6">>
      [] s = <<"A","B","C","D","E","1","2","3","4","F">> ->
           <<"6","4","4","2","f","d","7","3","a","9","4","0">>
      [] s = <<"M","E","D","A","B","1","2","C","D","3","4">> ->
           <<"2","1","b","3","4","8","3","b","4","1","8","f">>

\* The first 6 characters of hashlib.md5(s.encode()).hexdigest(), tabulated
Md5Hex(s) ==
    CASE s = <<"H","D","F","C","0","9","E","8","A","E","6">> ->
           <<"7","c","0","d","2","f">>
      [] s = <<"S","B","I","N","0","5","A","6","B","7","3">> ->
           <<"7","5","1","b","6","d">>
      [] s = <<"H","D","F","C","0","0","0","1","2","3","4">> ->
           <<"9","e","8","a","e","6">>
      [] s = <<"S","B","I","N","0","0","0","5","6","7","8">> ->
           <<"5","a","6","b","7","3">>

anonymize_bank_account(account) ==
    <<"A", "C", "C", "T", "_">> \o ToUpper(SubSeq(Sha256Hex(account), 1, 12))

\* The replacement made of a tag and the digest prefix, as anonymize_pan does
anonymize_ifsc_tagged(ifsc) ==
    <<"I", "F", "S", "C", "_">> \o ToUpper(SubSeq(Md5Hex(ifsc), 1, 6))

anonymize_ifsc(ifsc) ==
    Slice(ifsc, 0, 4) \o <<"0">> \o ToUpper(SubSeq(Md5Hex(ifsc), 1, 6))

mask_aadhaar(a) ==
    LET digits == OnlyDigits(a)
        masked == Slice(digits, 0, 4) \o <<"X", "X", "X", "X">> \o Slice(digits, 8, 12)
    IN  IF Len(digits) # 12 THEN a
        ELSE IF \E k \in DOMAIN a : a[k] = " "
             THEN Slice(masked, 0, 4) \o <<" ">> \o Slice(masked, 4, 8) \o <<" ">>
                  \o Slice(masked, 8, 12)
        ELSE masked

anonymize_pan(pan) ==
    <<"P", "A", "N", "_">> \o ToUpper(SubSeq(Sha256Hex(pan), 1, 10))

\* email.split("@", 1) raises ValueError on unpacking when there is no "@"
pseudo_email(email) ==
    IF \E k \in DOMAIN email : email[k] = "@"
    THEN LET at == CHOOSE k \in DOMAIN email :
                      email[k] = "@" /\ \A j \in 1..(k - 1) : email[j] # "@"
         IN  <<"x", "x", "x", "x", "@">> \o Slice(email, at, Len(email))
    ELSE <<"x", "x", "x", "x", "@">>

\* vid[:3] + 'X' * 4 + vid[-3:]
mask_voter_id(vid) ==
    Slice(vid, 0, 3) \o Repeat("X", 4)
    \o Slice(vid, (IF Len(vid) > 3 THEN Len(vid) - 3 ELSE 0), Len(vid))

mask_driving_license(dl) ==
    LET parts == Split(dl, "/")
    IN  IF Len(parts) = 3
        THEN parts[1] \o <<"/", "X", "X", "X", "X", "X", "X", "/">> \o parts[3]
        ELSE dl

\* '.'.join(parts[:2] + ['X', 'X'])
mask_ip(ip) ==
    LET parts == Split(ip, ".")
    IN  Join(Slice(parts, 0, 2) \o << <<"X">>, <<"X">> >>, <<".">>)

mask_dob(dob) ==
    LET parts == Split(dob, "/")
    IN  <<"X", "X", "/", "X", "X", "/">> \o parts[Len(parts)]

anonymize_medical_id(mid) ==
    <<"M", "E", "D">> \o ToUpper(SubSeq(Sha256Hex(mid), 1, 8))

ENHANCED_DEIDENTIFY(pii_type, raw) ==
    CASE pii_type = "credit_card"     -> mask_credit_card_enhanced(raw)
      [] pii_type = "aadhaar"         -> mask_aadhaar(raw)
      [] pii_type = "pan"             -> anonymize_pan(raw)
      [] pii_type = "email"           -> pseudo_email(raw)
      [] pii_type = "phone"           -> mask_phone_enhanced(raw)
      [] pii_type = "ifsc"            -> anonymize_ifsc(raw)
      [] pii_type = "bank_account"    -> anonymize_bank_account(raw)
      [] pii_type = "voter_id"        -> mask_voter_id(raw)
      [] pii_type = "driving_license" -> mask_driving_license(raw)
      [] pii_type = "ip_address"      -> mask_ip(raw)
      [] pii_type = "dob"             -> mask_dob(raw)
      [] pii_type = "medical_id"      -> anonymize_medical_id(raw)

(***************************************************************************)
(* EnhancedPiiDetector                                                     *)
(***************************************************************************)
BankKeywords ==
    { <<"a","c","c","o","u","n","t">>, <<"b","a","n","k">>, <<"a","c","c">>,
      <<"a","/","c">> }

\* Scores in hundredths
calculate_confidence(pii_type, match_text, context) ==
    CASE pii_type = "credit_card" ->
            IF luhn_check(match_text) THEN 95 ELSE 30
      [] pii_type = "aadhaar" ->
            LET digits == OnlyDigits(match_text)
            IN  IF Len(digits) = 12 /\ verhoeff_validate(digits) THEN 95
                ELSE IF Len(digits) = 12 THEN 70
                ELSE 30
      [] pii_type = "phone" ->
            IF validate_indian_phone(match_text) THEN 90 ELSE 40
      [] pii_type = "ifsc" ->
            IF validate_ifsc(match_text) THEN 95 ELSE 50
      [] pii_type = "bank_account" ->
            LET digits == OnlyDigits(match_text)
            IN  IF 9 <= Len(digits) /\ Len(digits) <= 18
                THEN IF \E kw \in BankKeywords : Contains(ToLower(context), kw)
                     THEN 80 ELSE 60
                ELSE 30
      [] pii_type = "voter_id" ->
            IF validate_voter_id(match_text) THEN 90 ELSE 40
      [] pii_type = "driving_license" ->
            IF validate_driving_license(match_text) THEN 90 ELSE 40
      [] pii_type = "ip_address" ->
            IF validate_ip(match_text) THEN 95 ELSE 50
      [] pii_type = "dob" ->
            IF validate_dob(match_text) THEN 80 ELSE 30
      [] pii_type = "medical_id" ->
            IF validate_medical_id(match_text) THEN 70 ELSE 30
      [] OTHER -> 100

\* Every match of every pattern, in dictionary order then text order, scored
RECURSIVE Candidates(_, _, _)
Candidates(text, context, k) ==
    IF k > Len(PiiTypeOrder) THEN <<>>
    ELSE Only({ [j \in 1..Len(ms) |->
                    [pii_type   |-> PiiTypeOrder[k],
                     start      |-> ms[j].start,
                     end        |-> ms[j].end,
                     group      |-> ms[j].group,
                     confidence |-> calculate_confidence(
                                       PiiTypeOrder[k], ms[j].group, context)]]
                \o Candidates(text, context, k + 1) :
                ms \in { FindIter(PiiTypeOrder[k], text, 1) } })

\* The filter with the comparison turned round
RECURSIVE SelectBelow(_, _)
SelectBelow(cands, confidence_threshold) ==
    IF cands = <<>> THEN <<>>
    ELSE IF Head(cands).confidence <= confidence_threshold
         THEN <<Head(cands)>> \o SelectBelow(Tail(cands), confidence_threshold)
    ELSE SelectBelow(Tail(cands), confidence_threshold)

\* The candidates with confidence >= self.confidence_threshold, order kept
RECURSIVE SelectMeets(_, _)
SelectMeets(cands, confidence_threshold) ==
    IF cands = <<>> THEN <<>>
    ELSE IF Head(cands).confidence >= confidence_threshold
         THEN <<Head(cands)>> \o SelectMeets(Tail(cands), confidence_threshold)
    ELSE SelectMeets(Tail(cands), confidence_threshold)

(***************************************************************************)
(* Documents and the adapters' traversal                                   *)
(*                                                                         *)
(* A document is what the adapter has read: the DataFrame of a .csv file   *)
(* (header and rows of cells), the decoded list of a .json file (records   *)
(* as sequences of <<key, value>> pairs in dictionary order), or the text  *)
(* of a .txt file.  A missing cell (NaN) or a None value is NoValue.  A    *)
(* .json file that decodes to something else than a list has no data but   *)
(* the object it holds; a value that is itself a dict or a list is the      *)
(* triple <<key, str(value), "object">>.                                    *)
(***************************************************************************)
NoValue == <<"NaN">>

Documents ==
    << [ext |-> ".txt", text |-> <<"b","o","b","@","1","0",".","2","0",".","3","0",".","4","0",".","c","o","m"," ","t","a","i","l">>],
       [ext |-> ".csv",
        header |-> << <<"n","o","t","e">>, <<"i","d">> >>,
        rows   |-> << << <<"b","a","n","k">>, <<"1","2","3","4","5","6","7","8","9","0","1","2">> >> >>],
       [ext |-> ".txt", text |-> <<"1","2","3","4","5","6","7","8","9">>],
       [ext |-> ".csv",
        header |-> << <<"n","a","m","e">>, <<"i","d">> >>,
        rows   |-> << << NoValue, <<"2","3","4","5","6","7","8","9","0","1","2","4">> >> >>],
       [ext |-> ".txt", text |-> <<"c","a","l","l"," ","9","8","7","6","5","4","3","2","1","0"," ","o","r"," ","1","5","/","0","8","/","1","9","9","0">>],
       [ext |-> ".json",
        data |-> << << << <<"e","m","a","i","l">>, <<"a","l","i","c","e","@","e","x","a","m","p","l","e",".","c","o","m">> >>,
                       << <<"i","p">>, <<"1","9","2",".","1","6","8",".","1",".","1">> >> >> >>],
       [ext |-> ".txt", text |-> <<"H","D","F","C","0","0","0","1","2","3","4"," ","S","B","I","N","0","0","0","5","6","7","8">>],
       [ext |-> ".txt", text |-> <<"p","a","n"," ","A","B","C","D","E","1","2","3","4","F"," ","m","e","d"," ","M","E","D","A","B","1","2","C","D","3","4"," ","a","c","c","t"," ","1","2","3","4","5","6","7","8","9">>],
       [ext |-> ".txt", text |-> <<"1","2","3","4","\t","5","6","7","8","\t","9","0","1","2">>],
       [ext |-> ".csv",
        header |-> << <<"n","a","m","e">>, <<"i","d">> >>,
        rows   |-> << << <<"j","a","c","c","o">>, <<"2","3","4","5","6","7","8","9","0","1","2","4">> >> >>],
       [ext |-> ".docx", text |-> <<"c","a","l","l"," ","9","8","7","6","5","4","3","2","1","0">>],
       [ext |-> ".json", object |-> << << <<"i","p">>, <<"1","9","2",".","1","6","8",".","1",".","1">> >> >>],
       [ext |-> ".json",
        data |-> << << << <<"u","s","e","r">>, <<"{","'","i","p","'",":"," ","'","1","0",".","0",".","0",".","1","'","}">>, "object" >> >> >>],
       [ext |-> ".txt", text |-> <<"4","1","1","1","-","1","1","1","1","-","1","1","1","1","-","1","1","1","1"," ","A","B","C","1","2","3","4","5","6","7"," ","K","A","0","1","/","1","2","3","4","5","6","/","2","0","2","0">>],
       [ext |-> ".csv",
        header |-> << <<"c","o","n","t","a","c","t">>, <<"n","o","t","e">> >>,
        rows   |-> << << <<"c","a","l","l"," ","9","8","7","6","5","4","3","2","1","0">>,
                         <<"b","o","r","n"," ","1","5","/","0","8","/","1","9","9","0"," ","i","p"," ","1","9","2",".","1","6","8",".","1",".","1">> >>,
                      << <<"a","l","i","c","e","@","e","x","a","m","p","l","e",".","c","o","m">>, <<"1","9","2",".","1","6","8",".","1",".","1">> >> >>],
       [ext |-> ".json",
        data |-> << << << <<"e","m","a","i","l">>, <<"a","l","i","c","e","@","e","x","a","m","p","l","e",".","c","o","m">> >>,
                       << <<"i","p">>, <<"1","9","2",".","1","6","8",".","1",".","1">> >> >>,
                    << << <<"n","o","t","e">>, <<"c","a","l","l"," ","9","8","7","6","5","4","3","2","1","0"," ","o","r"," ","1","5","/","0","8","/","1","9","9","0">> >> >> >>],
       [ext |-> ".txt", text |-> <<"H","D","F","C","0","0","0","1","2","3","4"," ","M","E","D","A","B","1","2","C","D","3","4">>] >>

\* str(val) for val in row if pd.notna(val)
RECURSIVE PresentValues(_)
PresentValues(row) ==
    IF row = <<>> THEN <<>>
    ELSE IF Head(row) = NoValue THEN PresentValues(Tail(row))
    ELSE <<Head(row)>> \o PresentValues(Tail(row))

\* f"{k}:{v}" for k, v in item.items(); str(None) is "None"
ItemPairs(item) ==
    [j \in 1..Len(item) |->
        item[j][1] \o <<":">>
        \o (IF item[j][2] = NoValue THEN <<"N", "o", "n", "e">> ELSE item[j][2])]

\* The fields with the row index as iterrows gives it, counted from 0
RECURSIVE TabularFieldsZeroBased(_, _, _)
TabularFieldsZeroBased(header, rows, r_i) ==
    IF r_i >= Len(rows) THEN <<>>
    ELSE LET row == rows[r_i + 1]
             row_context == Join(PresentValues(row), <<" ">>)
         IN  [c \in 1..Len(header) |->
                 [text        |-> IF row[c] = NoValue THEN <<>> ELSE row[c],
                  context     |-> row_context,
                  row_index   |-> r_i,
                  column_name |-> header[c]]]
             \o TabularFieldsZeroBased(header, rows, r_i + 1)

\* The fields _process_tabular redacts, row by row and column by column
RECURSIVE TabularFields(_, _, _)
TabularFields(header, rows, r_i) ==
    IF r_i >= Len(rows) THEN <<>>
    ELSE LET row == rows[r_i + 1]
             row_context == Join(PresentValues(row), <<" ">>)
         IN  [c \in 1..Len(header) |->
                 [text        |-> IF row[c] = NoValue THEN <<>> ELSE row[c],
                  context     |-> row_context,
                  row_index   |-> r_i + 1,
                  column_name |-> header[c]]]
             \o TabularFields(header, rows, r_i + 1)

\* The fields process_json_enhanced redacts, record by record and key by key
RECURSIVE JsonFields(_, _)
JsonFields(data, r_i) ==
    IF r_i > Len(data) THEN <<>>
    ELSE LET item == data[r_i]
             item_context == Join(ItemPairs(item), <<" ">>)
         IN  [j \in 1..Len(item) |->
                 [text        |-> IF item[j][2] = NoValue THEN <<>> ELSE item[j][2],
                  context     |-> item_context,
                  row_index   |-> r_i,
                  column_name |-> item[j][1]]]
             \o JsonFields(data, r_i + 1)

\* process_txt_enhanced: the whole text is one field and its own context
TxtFields(text) ==
    << [text |-> text, context |-> text, row_index |-> 1,
        column_name |-> <<"t", "e", "x", "t">>] >>

\* Every extension, as if process_file had a branch for each
AnyExtension == {".csv", ".xls", ".xlsx", ".json", ".txt", ".pdf", ".docx"}

\* The extensions process_file has a branch for
SupportedExtensions == {".csv", ".xls", ".xlsx", ".json", ".txt", ".pdf"}

\* isinstance(data, list) and all(isinstance(item, dict) for item in data)
IsRecordList(doc) == "data" \in DOMAIN doc

\* The exception raised before any field is redacted, "" when there is none:
\* the ValueError of process_file's last branch or of process_json_enhanced
ReadError(doc) ==
    IF doc.ext \notin SupportedExtensions THEN "ValueError: unsupported file type"
    ELSE IF doc.ext = ".json" /\ ~IsRecordList(doc)
         THEN "ValueError: JSON must be a list of dictionaries"
    ELSE ""

\* process_file: the adapter chosen by the extension, and the fields it
\* redacts; none when the call raises before its loop
Fields(doc) ==
    CASE ReadError(doc) # "" -> <<>>
      [] doc.ext \in {".csv", ".xls", ".xlsx"} -> TabularFields(doc.header, doc.rows, 0)
      [] doc.ext = ".json" -> JsonFields(doc.data, 1)
      [] doc.ext = ".txt"  -> TxtFields(doc.text)
      [] OTHER -> <<>>

\* Every (text, context) pair the adapters hand to the engine
FieldInputs ==
    UNION {{[text |-> Fields(Documents[d])[k].text, context |-> Fields(Documents[d])[k].context] :
              k \in DOMAIN Fields(Documents[d])} : d \in DOMAIN Documents}

\* The scored matches of those pairs, evaluated once
CandidateTable == [f \in FieldInputs |-> Candidates(f.text, f.context, 1)]

ScoredCandidates(text, context) ==
    IF [text |-> text, context |-> context] \in FieldInputs
    THEN CandidateTable[[text |-> text, context |-> context]]
    ELSE Candidates(text, context, 1)

\* detector is the EnhancedPiiDetector object: [confidence_threshold]
find_all_enhanced(detector, text, context) ==
    SelectMeets(ScoredCandidates(text, context), detector.confidence_threshold)

(***************************************************************************)
(* EnhancedProcessor                                                       *)
(***************************************************************************)
\* confidence_threshold default of EnhancedProcessor.__init__, in hundredths
DefaultThreshold == 70

\* EnhancedProcessor(confidence_threshold): the object after __init__.
\* det_counts is the Counter and confidence_stats the defaultdict(list); both
\* are functions whose domain is the set of keys inserted so far.
EnhancedProcessor(confidence_threshold) ==
    [detector         |-> [confidence_threshold |-> confidence_threshold],
     det_counts       |-> <<>>,
     confidence_stats |-> <<>>]

\* counter[key] += 1
Incremented(counter, key) ==
    IF key \in DOMAIN counter THEN [counter EXCEPT ![key] = @ + 1]
    ELSE [k \in DOMAIN counter \cup {key} |-> IF k = key THEN 1 ELSE counter[k]]

\* stats[key].append(value)
Appended(stats, key, value) ==
    IF key \in DOMAIN stats THEN [stats EXCEPT ![key] = Append(@, value)]
    ELSE [k \in DOMAIN stats \cup {key} |-> IF k = key THEN <<value>> ELSE stats[k]]

\* m placed in a list already in descending start order, after every entry
\* whose start is not smaller (list.sort is stable, also with reverse=True)
RECURSIVE InsertByStartDesc(_, _)
InsertByStartDesc(sorted, m) ==
    IF sorted = <<>> THEN <<m>>
    ELSE IF Head(sorted).start < m.start THEN <<m>> \o sorted
    ELSE Only({ <<Head(sorted)>> \o rest : rest \in { InsertByStartDesc(Tail(sorted), m) } })

\* The matches left in the order find_all_enhanced returned them
Unsorted(matches) == matches

\* all_matches.sort(key=lambda x: x[1].start(), reverse=True)
RECURSIVE SortByStartDesc(_)
SortByStartDesc(matches) ==
    IF matches = <<>> THEN <<>>
    ELSE Only({ InsertByStartDesc(sorted, matches[Len(matches)]) :
                sorted \in { SortByStartDesc(SubSeq(matches, 1, Len(matches) - 1)) } })

\* The list left in the order it was built
NotReversed(s) == s

\* list(reversed(s))
Reversed(s) == [i \in 1..Len(s) |-> s[Len(s) - i + 1]]

\* new_text[:match.start()] + masked + new_text[match.end():]
Splice(new_text, start, end, masked) ==
    Slice(new_text, 0, start) \o masked \o Slice(new_text, end, Len(new_text))

\* context[:100] if context else ""
ContextSnippet(context) == Slice(context, 0, 100)

\* The loop of _deidentify_text_enhanced over matches[k..]; acc carries
\* new_text, the detections in the order appended, the two aggregates, and
\* steps: each match's raw value with the working text it was spliced into.
RECURSIVE ApplyMatches(_, _, _, _, _)
ApplyMatches(text, context, matches, k, acc) ==
    IF k > Len(matches) THEN acc
    ELSE Only({ ApplyMatches(text, context, matches, k + 1, next) :
           next \in {
             [new_text         |-> Splice(acc.new_text, m.start, m.end, masked),
              detections       |->
                  Append(acc.detections,
                         [row_index    |-> -1,
                          column_name  |-> <<>>,
                          pii_type     |-> m.pii_type,
                          raw_value    |-> m.group,
                          masked_value |-> masked,
                          start        |-> m.start,
                          end          |-> m.end,
                          confidence   |-> m.confidence,
                          context      |-> ContextSnippet(context)]),
              det_counts       |-> Incremented(acc.det_counts, m.pii_type),
              confidence_stats |-> Appended(acc.confidence_stats, m.pii_type,
                                            m.confidence),
              steps            |-> Append(acc.steps,
                                          [start  |-> m.start,
                                           end    |-> m.end,
                                           raw    |-> m.group,
                                           before |-> acc.new_text])] :
             m \in { matches[k] },
             masked \in { ENHANCED_DEIDENTIFY(matches[k].pii_type,
                                              matches[k].group) } } })

\* _deidentify_text_enhanced up to its return statement: the matches found,
\* sorted and applied.  self is the EnhancedProcessor.
SortedAndApplied(self, text, context) ==
    Only({ ApplyMatches(text, context, all_matches, 1,
               [new_text         |-> text,
                detections       |-> <<>>,
                det_counts       |-> self.det_counts,
                confidence_stats |-> self.confidence_stats,
                steps            |-> <<>>]) :
           all_matches \in { SortByStartDesc(
               find_all_enhanced(self.detector, text, context)) } })

\* The return statement reversing the list only on a processor that has
\* counted nothing yet
deidentify_text_first_only(self, text, context) ==
    [SortedAndApplied(self, text, context) EXCEPT
        !.detections = IF self.det_counts = <<>> THEN Reversed(@) ELSE @]

\* The result holds the returned pair (new_text, list(reversed(detections))),
\* the aggregates of self after the call, and steps.
deidentify_text_enhanced(self, text, context) ==
    [SortedAndApplied(self, text, context) EXCEPT !.detections = Reversed(@)]

\* sum(xs)
RECURSIVE Sum(_)
Sum(xs) == IF xs = <<>> THEN 0 ELSE Head(xs) + Sum(Tail(xs))

\* _generate_summary without the timestamp and the two paths.  A mean is the
\* pair [num, den] of the division the code performs (scores in hundredths);
\* the precision estimate is max(0.5, high / n) as such a pair.
generate_summary(self, detections) ==
    LET keys == DOMAIN self.det_counts
        of(ty)   == {i \in DOMAIN detections : detections[i].pii_type = ty}
        high(ty) == Cardinality({i \in DOMAIN self.confidence_stats[ty] :
                                    self.confidence_stats[ty][i] > 80})
        n(ty)    == Len(self.confidence_stats[ty])
    IN  [total_detections |-> Len(detections),
         counts_by_type   |-> self.det_counts,
         unique_values_by_type |->
             [ty \in keys |-> Cardinality({detections[i].raw_value : i \in of(ty)})],
         average_confidence_by_type |->
             [ty \in keys |-> IF n(ty) > 0
                              THEN [num |-> Sum(self.confidence_stats[ty]), den |-> n(ty)]
                              ELSE [num |-> 0, den |-> 1]],
         estimated_precision |->
             [ty \in keys |-> IF n(ty) > 0 /\ 2 * high(ty) > n(ty)
                              THEN [num |-> high(ty), den |-> n(ty)]
                              ELSE [num |-> 1, den |-> 2]]]

(***************************************************************************)
(* The upload surface: one shared processor, concurrent request handlers   *)
(***************************************************************************)
\* Requests handled in all
MaxRuns == 2

Requests == 1..MaxRuns

\* Thresholds a caller passes, in hundredths
Thresholds == {50, DefaultThreshold, 90}

\* self.det_counts and self.confidence_stats of a processor
Aggregates(self) ==
    [det_counts |-> self.det_counts, confidence_stats |-> self.confidence_stats]

\* A request's locals.  written lists the files the call has written, error
\* is the exception it raised; entered and left are the processor's
\* aggregates when the call began and when it returned or raised.
IdleRequest ==
    [pc |-> "idle", doc |-> 0, confidence_threshold |-> 0, pos |-> 0,
     detections_log |-> <<>>, new_fields |-> <<>>, summary |-> <<>>,
     overlapped |-> FALSE, written |-> <<>>, error |-> "",
     entered |-> Aggregates(EnhancedProcessor(DefaultThreshold)),
     left |-> Aggregates(EnhancedProcessor(DefaultThreshold))]

\* No validator has been called directly
NoCall == [fn |-> "", arg |-> <<>>, pc |-> "idle", result |-> FALSE]

Init ==
    /\ call = NoCall
    /\ processor \in {EnhancedProcessor(t) : t \in Thresholds}
    /\ req = [r \in Requests |-> IdleRequest]
    /\ last = [text |-> <<>>, context |-> <<>>, new_text |-> <<>>,
               detections |-> <<>>, steps |-> <<>>]

Running(r) == req[r].pc = "run"

\* upload_file up to the call processor.process_file(upload_path, work_output,
\* work_report, confidence_threshold): requests are numbered as they arrive.
\* overlapped records that another request was in process_file meanwhile.
Upload(r, d, t) ==
    /\ req[r].pc = "idle"
    /\ \A q \in 1..(r - 1) : req[q].pc # "idle"
    /\ req' = [q \in Requests |->
                 IF q = r
                 THEN [IdleRequest EXCEPT !.pc = "run", !.doc = d,
                                          !.confidence_threshold = t, !.pos = 1,
                                          !.overlapped = \E o \in Requests : Running(o),
                                          !.entered = Aggregates(processor)]
                 ELSE IF Running(q) THEN [req[q] EXCEPT !.overlapped = TRUE]
                 ELSE req[q]]
    /\ UNCHANGED <<processor, last, call>>

\* One iteration of the adapter's loop: the next field goes through
\* _deidentify_text_enhanced of the shared processor and its detections are
\* tagged and appended to this request's detections_log.
ProcessField(r) ==
    /\ Running(r)
    /\ req[r].pos <= Len(Fields(Documents[req[r].doc]))
    /\ UNCHANGED call
    /\ \E field \in {Fields(Documents[req[r].doc])[req[r].pos]} :
       \E res \in {deidentify_text_enhanced(processor, field.text, field.context)} :
           /\ processor' = [processor EXCEPT !.det_counts = res.det_counts,
                                             !.confidence_stats = res.confidence_stats]
           /\ req' = [req EXCEPT
                  ![r].pos = @ + 1,
                  ![r].detections_log =
                      @ \o [i \in 1..Len(res.detections) |->
                              [res.detections[i] EXCEPT
                                  !.row_index = field.row_index,
                                  !.column_name = field.column_name]],
                  ![r].new_fields = Append(@, res.new_text)]
           /\ last' = [text |-> field.text, context |-> field.context,
                       new_text |-> res.new_text, detections |-> res.detections,
                       steps |-> res.steps]

\* The files an adapter writes after its loop, in the order it writes them
OutputFiles == <<"output", "detections", "summary">>

\* After the loop: the outputs are written and _generate_summary reads the
\* shared processor; upload_file returns the summary and the detections.
Finish(r) ==
    /\ Running(r)
    /\ ReadError(Documents[req[r].doc]) = ""
    /\ req[r].pos > Len(Fields(Documents[req[r].doc]))
    /\ req' = [req EXCEPT ![r].pc = "done",
                          ![r].summary = generate_summary(processor, req[r].detections_log),
                          ![r].written = OutputFiles,
                          ![r].left = Aggregates(processor)]
    /\ UNCHANGED <<processor, last, call>>

\* process_file raises before the adapter's loop: the extension has no
\* branch, or the .json document is not a list of dicts.  The except clause
\* logs and re-raises.
Raise(r) ==
    /\ Running(r)
    /\ ReadError(Documents[req[r].doc]) # ""
    /\ req' = [req EXCEPT ![r].pc = "failed",
                          ![r].error = ReadError(Documents[req[r].doc]),
                          ![r].left = Aggregates(processor)]
    /\ UNCHANGED <<processor, last, call>>

\* After the loop, writing the n + 1st file raises (the path cannot be
\* written): the except clause logs and re-raises, the files written so far
\* stay and the processor is left as the loop left it.
WriteFails(r, n) ==
    /\ Running(r)
    /\ ReadError(Documents[req[r].doc]) = ""
    /\ req[r].pos > Len(Fields(Documents[req[r].doc]))
    /\ req' = [req EXCEPT ![r].pc = "failed",
                          ![r].error = "OSError",
                          ![r].written = SubSeq(OutputFiles, 1, n),
                          ![r].left = Aggregates(processor)]
    /\ UNCHANGED <<processor, last, call>>

\* A call of process_file made while no other call is in progress
UploadAlone(r, d, t) ==
    /\ \A q \in Requests : ~Running(q)
    /\ Upload(r, d, t)

\* The documents sent through the upload surface
Uploads == 1..6

\* One caller at a time: a sequence of process_file calls on one processor
Next ==
    \/ \E r \in Requests, d \in Uploads, t \in Thresholds : UploadAlone(r, d, t)
    \/ \E r \in Requests : ProcessField(r)
    \/ \E r \in Requests : Finish(r)

Spec == Init /\ [][Next]_vars

\* The upload surface serving requests in concurrent handler threads, which
\* all call process_file of the one module-level processor
NextUpload ==
    \/ \E r \in Requests, d \in Uploads, t \in Thresholds : Upload(r, d, t)
    \/ \E r \in Requests : ProcessField(r)
    \/ \E r \in Requests : Finish(r)

SpecUpload == Init /\ [][NextUpload]_vars

\* main_enhanced: one command-line run.  It builds its own processor with
\* --confidence-threshold and calls the adapter of the input's extension;
\* the run occupies request 1, and a new run starts once the last has ended.
Main(d, t) ==
    /\ \A q \in Requests : ~Running(q)
    /\ UNCHANGED call
    /\ processor' = EnhancedProcessor(t)
    /\ req' = [req EXCEPT ![1] =
                  [IdleRequest EXCEPT !.pc = "run", !.doc = d,
                                      !.confidence_threshold = t, !.pos = 1]]
    /\ last' = [text |-> <<>>, context |-> <<>>, new_text |-> <<>>,
                detections |-> <<>>, steps |-> <<>>]

\* Command-line runs over every document
NextMain ==
    \/ \E d \in DOMAIN Documents, t \in Thresholds : Main(d, t)
    \/ \E r \in Requests : ProcessField(r)
    \/ \E r \in Requests : Finish(r)
    \/ \E r \in Requests : Raise(r)

SpecMain == Init /\ [][NextMain]_vars

\* The documents of the calls that can fail
CallDocuments == {5, 11, 12, 13}

\* process_file calls one at a time on one processor, each of which may raise
NextCalls ==
    \/ \E r \in Requests, d \in CallDocuments, t \in Thresholds : UploadAlone(r, d, t)
    \/ \E r \in Requests : ProcessField(r)
    \/ \E r \in Requests : Finish(r)
    \/ \E r \in Requests : Raise(r)
    \/ \E r \in Requests, n \in 0..(Len(OutputFiles) - 1) : WriteFails(r, n)

SpecCalls == Init /\ [][NextCalls]_vars

(***************************************************************************)
(* The validators called directly                                          *)
(***************************************************************************)
\* The checksum-valid national ID of the documents
BaseId == <<"2","3","4","5","6","7","8","9","0","1","2","4">>

\* Adjacent digits of a national ID varied at a time
MaxWindow == 3

\* Every digit string of length n
RECURSIVE DigitStrings(_)
DigitStrings(n) ==
    IF n = 0 THEN {<<>>}
    ELSE {<<d>> \o s : d \in Digit, s \in DigitStrings(n - 1)}

\* The national ID with the MaxWindow digits after its first a digits set to w
Windowed(a, w) ==
    SubSeq(BaseId, 1, a) \o w \o SubSeq(BaseId, a + MaxWindow + 1, Len(BaseId))

\* Parts an address is put together from: empty, octets, a number over 255,
\* a letter
IpParts ==
    {<<>>, <<"0">>, <<"2", "5", "5">>, <<"2", "5", "6">>, <<"a">>, <<"1", "9", "2">>}

\* Parts of an address
MaxParts == 4

\* A call of a validator about to be made
Called(fn, arg) == [fn |-> fn, arg |-> arg, pc |-> "called", result |-> FALSE]

\* A caller is about to call a validator: verhoeff_validate with the
\* national ID of which a window of MaxWindow adjacent digits is set to any
\* value, or with a shorter digit string; validate_ip with up to MaxParts
\* parts joined by dots
InitValidators ==
    /\ processor = EnhancedProcessor(DefaultThreshold)
    /\ req = [r \in Requests |-> IdleRequest]
    /\ last = [text |-> <<>>, context |-> <<>>, new_text |-> <<>>,
               detections |-> <<>>, steps |-> <<>>]
    /\ \/ \E a \in 0..(Len(BaseId) - MaxWindow), w \in DigitStrings(MaxWindow) :
             call = Called("verhoeff_validate", Windowed(a, w))
       \/ \E n \in 0..MaxWindow : \E w \in DigitStrings(n) :
             call = Called("verhoeff_validate", w)
       \/ \E n \in 1..MaxParts : \E parts \in [1..n -> IpParts] :
             call = Called("validate_ip", Join(parts, <<".">>))

\* verhoeff_validate(num) returns
VerhoeffReturns ==
    /\ call.pc = "called"
    /\ call.fn = "verhoeff_validate"
    /\ call' = [call EXCEPT !.pc = "returned", !.result = verhoeff_validate(call.arg)]
    /\ UNCHANGED <<processor, req, last>>

\* validate_ip(ip) returns
IpReturns ==
    /\ call.pc = "called"
    /\ call.fn = "validate_ip"
    /\ call' = [call EXCEPT !.pc = "returned", !.result = validate_ip(call.arg)]
    /\ UNCHANGED <<processor, req, last>>

NextValidators ==
    \/ VerhoeffReturns
    \/ IpReturns

SpecValidators == InitValidators /\ [][NextValidators]_vars

(***************************************************************************)
(* Properties                                                              *)
(***************************************************************************)
DoneRuns == {r \in Requests : req[r].pc = "done"}

\* counter[key] read: a Counter gives 0 for a key it does not hold
CountOf(counter, key) == IF key \in DOMAIN counter THEN counter[key] ELSE 0

\* The number of detections of type ty in a log
LogCount(log, ty) == Cardinality({i \in DOMAIN log : log[i].pii_type = ty})

\* The confidences of the detections of type ty in a log, in log order
RECURSIVE LogConfidences(_, _)
LogConfidences(log, ty) ==
    IF log = <<>> THEN <<>>
    ELSE IF Head(log).pii_type = ty
         THEN <<Head(log).confidence>> \o LogConfidences(Tail(log), ty)
    ELSE LogConfidences(Tail(log), ty)

\* The sum of counter over the first k types
RECURSIVE CountsSum(_, _)
CountsSum(counter, k) ==
    IF k = 0 THEN 0 ELSE CountsSum(counter, k - 1) + CountOf(counter, PiiTypeOrder[k])

\* The number of places where sub occurs in text
Occurrences(text, sub) == Cardinality({i \in 1..Len(text) : StartsAt(text, i, sub)})

\* Thresholds around every score the detector gives, in hundredths
ThresholdGrid == {0, 30, 40, 50, 60, 70, 80, 90, 95, 100}

\* The matches find_all_enhanced accepts in the latest field at threshold t
Accepted(t) ==
    Range(find_all_enhanced([confidence_threshold |-> t], last.text, last.context))

\* C1: for every finished call process_file(input, output, report_dir,
\* confidence_threshold = t), every detection in the returned log has
\* confidence >= t, and every candidate match of every field of the input with
\* confidence >= t is in the log.
ThresholdSuppliedPerCall ==
    \A r \in DoneRuns :
        LET t      == req[r].confidence_threshold
            log    == req[r].detections_log
            fields == Fields(Documents[req[r].doc])
        IN  /\ \A i \in DOMAIN log : log[i].confidence >= t
            /\ \A k \in DOMAIN fields :
                 \A c \in Range(ScoredCandidates(fields[k].text, fields[k].context)) :
                    c.confidence >= t =>
                        \E i \in DOMAIN log :
                            /\ log[i].row_index = fields[k].row_index
                            /\ log[i].column_name = fields[k].column_name
                            /\ log[i].pii_type = c.pii_type
                            /\ log[i].start = c.start
                            /\ log[i].end = c.end

\* C2: after any sequence of process calls on one processor, the summary each
\* call returns reports for every type a count equal to the number of
\* detections of that type in that call's own log, so the counts sum to
\* total_detections.
SummaryCountsOwnLog ==
    \A r \in DoneRuns :
        /\ \A ty \in PiiTypes :
              CountOf(req[r].summary.counts_by_type, ty) = LogCount(req[r].detections_log, ty)
        /\ CountsSum(req[r].summary.counts_by_type, Len(PiiTypeOrder))
              = req[r].summary.total_detections

\* C3: a run that was in progress at the same time as another run returns a
\* summary whose counts and confidence statistics are those of its own
\* detections only, under every interleaving of the field-by-field steps.
ConcurrentRunsIsolated ==
    \A r \in DoneRuns :
        req[r].overlapped =>
            \A ty \in PiiTypes :
                /\ CountOf(req[r].summary.counts_by_type, ty)
                      = LogCount(req[r].detections_log, ty)
                /\ ty \in DOMAIN req[r].summary.average_confidence_by_type =>
                      req[r].summary.average_confidence_by_type[ty]
                          = [num |-> Sum(LogConfidences(req[r].detections_log, ty)),
                             den |-> LogCount(req[r].detections_log, ty)]

\* C4: for every detection of a field whose masked value differs from its raw
\* value and whose raw value occurs exactly once in the original field, the
\* redacted field does not contain the raw value, also when accepted matches
\* overlap or nest.
DetectedIdentifierReplaced ==
    \A i \in DOMAIN last.detections :
        LET d == last.detections[i]
        IN  (d.masked_value # d.raw_value /\ Occurrences(last.text, d.raw_value) = 1)
                => ~Contains(last.new_text, d.raw_value)

\* C5: the characters of the original field before the smallest accepted
\* start and after the largest accepted end are, unchanged and complete, the
\* prefix and the suffix of the redacted field.
OutsideMatchesPreserved ==
    last.detections # <<>> =>
        LET dets == last.detections
            lo   == CHOOSE a \in {dets[i].start : i \in DOMAIN dets} :
                        \A i \in DOMAIN dets : a <= dets[i].start
            hi   == CHOOSE b \in {dets[i].end : i \in DOMAIN dets} :
                        \A i \in DOMAIN dets : b >= dets[i].end
            tail == Len(last.text) - hi
            n    == Len(last.new_text)
        IN  /\ n >= lo + tail
            /\ SubSeq(last.new_text, 1, lo) = SubSeq(last.text, 1, lo)
            /\ SubSeq(last.new_text, n - tail + 1, n) = SubSeq(last.text, hi + 1, Len(last.text))

\* C6: every detection returned for a field has 0 <= start < end <= length of
\* the field's original text, and the original text at [start, end) is the
\* detection's raw_value.
OffsetsIndexOriginalText ==
    \A i \in DOMAIN last.detections :
        LET d == last.detections[i]
        IN  /\ 0 <= d.start
            /\ d.start < d.end
            /\ d.end <= Len(last.text)
            /\ SubSeq(last.text, d.start + 1, d.end) = d.raw_value

\* A field redacted with a detection that does not start the text
OffsetsWitness ==
    \E i \in DOMAIN last.detections :
        /\ last.detections[i].start > 0
        /\ last.detections[i].end < Len(last.text)

\* C7: within one field the replacements are applied in strictly decreasing
\* start order, and when each is spliced the working text at its [start, end)
\* is still its raw value.
SplicedInDecreasingOrder ==
    \A k \in DOMAIN last.steps :
        /\ k > 1 => last.steps[k].start < last.steps[k - 1].start
        /\ Slice(last.steps[k].before, last.steps[k].start, last.steps[k].end)
              = last.steps[k].raw

\* C8: the detections returned for one field are in non-decreasing start
\* order and hold exactly one detection per accepted match.
ReturnedAscendingOnePerMatch ==
    LET dets     == last.detections
        accepted == find_all_enhanced(processor.detector, last.text, last.context)
    IN  /\ \A i \in 1..(Len(dets) - 1) : dets[i].start <= dets[i + 1].start
        /\ Len(dets) = Len(accepted)
        /\ \A j \in DOMAIN accepted :
              Cardinality({i \in DOMAIN dets :
                              /\ dets[i].pii_type = accepted[j].pii_type
                              /\ dets[i].start = accepted[j].start
                              /\ dets[i].end = accepted[j].end}) = 1

\* A field with accepted matches at two different starts
AscendingWitness ==
    /\ Len(last.detections) >= 2
    /\ last.detections[1].start < last.detections[Len(last.detections)].start

\* C9: for the text and context of any field and thresholds t1 <= t2, the
\* matches accepted at t2 are among those accepted at t1, and are not more.
ThresholdMonotone ==
    \A t1 \in ThresholdGrid, t2 \in ThresholdGrid :
        t1 <= t2 =>
            /\ Accepted(t2) \subseteq Accepted(t1)
            /\ Cardinality(Accepted(t2)) <= Cardinality(Accepted(t1))

\* A field where raising the threshold drops some matches and keeps others
MonotoneWitness ==
    \E t1 \in ThresholdGrid, t2 \in ThresholdGrid :
        /\ t1 < t2
        /\ Accepted(t2) # {}
        /\ Accepted(t2) # Accepted(t1)

\* C10: two finished runs over the same input with the same threshold have
\* the same detection log, in the same order, and the same masked output,
\* whatever the processor processed in between.
SameInputSameResult ==
    \A r1 \in DoneRuns, r2 \in DoneRuns :
        (/\ req[r1].doc = req[r2].doc
         /\ req[r1].confidence_threshold = req[r2].confidence_threshold)
            => /\ req[r1].detections_log = req[r2].detections_log
               /\ req[r1].new_fields = req[r2].new_fields

\* The same input run twice, its log holding two matches that share a start
SameInputWitness ==
    \E r1 \in DoneRuns, r2 \in DoneRuns :
        /\ r1 # r2
        /\ req[r1].doc = req[r2].doc
        /\ req[r1].confidence_threshold = req[r2].confidence_threshold
        /\ Len(req[r1].detections_log) >= 2
        /\ req[r1].detections_log[1].start = req[r1].detections_log[2].start
        /\ req[r1].detections_log[1].pii_type # req[r1].detections_log[2].pii_type

\* The types whose mask keeps the format of the raw value and hides digits
DigitMaskedTypes ==
    {"credit_card", "phone", "aadhaar", "voter_id", "ip_address", "dob",
     "driving_license"}

\* C11: for every digit-masking type and every raw value its pattern matched,
\* the masked value has the length of the raw value and every non-digit
\* character of the raw value is at its original position in it.
FormatPreserved ==
    \A i \in DOMAIN last.detections :
        LET d == last.detections[i]
        IN  d.pii_type \in DigitMaskedTypes =>
                /\ Len(d.masked_value) = Len(d.raw_value)
                /\ \A k \in DOMAIN d.raw_value :
                      d.raw_value[k] \notin Digit =>
                          (k <= Len(d.masked_value) /\ d.masked_value[k] = d.raw_value[k])

\* The characters of s that belong to S, in order
RECURSIVE Kept(_, _)
Kept(s, S) ==
    IF s = <<>> THEN <<>>
    ELSE IF Head(s) \in S THEN <<Head(s)>> \o Kept(Tail(s), S)
    ELSE Kept(Tail(s), S)

\* C12: for card, phone and national ID the masked value shows only the last
\* 4 digits of the raw value: every other digit is the filler character X.
OnlyLastFourRevealed ==
    \A i \in DOMAIN last.detections :
        LET d      == last.detections[i]
            digits == Kept(d.raw_value, Digit)
            shown  == Kept(d.masked_value, Digit \cup {"X"})
        IN  d.pii_type \in {"credit_card", "phone", "aadhaar"} =>
                /\ Len(shown) = Len(digits)
                /\ \A k \in DOMAIN digits :
                      shown[k] = IF k <= Len(digits) - 4 THEN "X" ELSE digits[k]

\* The types replaced by a token
TokenizedTypes == {"pan", "ifsc", "bank_account", "medical_id"}

\* The number of digest characters each anonymize function keeps
TokenLength(pii_type) ==
    CASE pii_type = "pan"          -> 10
      [] pii_type = "ifsc"         -> 6
      [] pii_type = "bank_account" -> 12
      [] pii_type = "medical_id"   -> 8

\* Upper-case hexadecimal digits
HexUpper == Digit \cup {"A", "B", "C", "D", "E", "F"}

\* What a replacement holds before its token
TokenLead(d) == SubSeq(d.masked_value, 1, Len(d.masked_value) - TokenLength(d.pii_type))

\* The token of a replacement
TokenPart(d) ==
    SubSeq(d.masked_value, Len(d.masked_value) - TokenLength(d.pii_type) + 1,
           Len(d.masked_value))

\* C13: for the tokenized types the replacement does not reproduce the raw
\* value; it is a type tag, the same for every raw value of the type and so
\* copied from none, followed by a token of upper-case digest characters; and
\* equal raw values have equal replacements.
TokensIrreversible ==
    \A i \in DOMAIN last.detections, j \in DOMAIN last.detections :
        LET d == last.detections[i]
            e == last.detections[j]
        IN  d.pii_type \in TokenizedTypes =>
                /\ ~Contains(d.masked_value, d.raw_value)
                /\ Len(d.masked_value) > TokenLength(d.pii_type)
                /\ Range(TokenPart(d)) \subseteq HexUpper
                /\ e.pii_type = d.pii_type => TokenLead(e) = TokenLead(d)
                /\ (e.pii_type = d.pii_type /\ e.raw_value = d.raw_value)
                      => e.masked_value = d.masked_value

\* A decoded .json document that is exactly an array of flat records: a list
\* of dicts none of whose values is itself a dict or a list
FlatRecordList(doc) ==
    /\ IsRecordList(doc)
    /\ \A i \in DOMAIN doc.data : \A j \in DOMAIN doc.data[i] : Len(doc.data[i][j]) = 2

\* C14: a run of the record-list adapter on a document that is not exactly
\* an array of flat records, whether it is no array or a record of it has a
\* nested array or object as a value, never completes: once it has ended it
\* has failed with the format error and has written no file.
NonFlatJsonRejected ==
    \A r \in Requests :
        LET doc == Documents[req[r].doc]
        IN  (req[r].pc \in {"done", "failed"} /\ doc.ext = ".json" /\ ~FlatRecordList(doc))
                => /\ req[r].pc = "failed"
                   /\ req[r].error = "ValueError: JSON must be a list of dictionaries"
                   /\ req[r].written = <<>>

\* C15: a call of process_file that raised, at whatever step, has left the
\* processor's aggregation state (det_counts and confidence_stats) as it was
\* when the call began.
FailedCallLeavesAggregates ==
    \A r \in Requests : req[r].pc = "failed" => req[r].left = req[r].entered

\* The keys of the per-type maps of a summary
SummaryKeys(summary) ==
    DOMAIN summary.counts_by_type
    \cup DOMAIN summary.unique_values_by_type
    \cup DOMAIN summary.average_confidence_by_type
    \cup DOMAIN summary.estimated_precision

\* C16: in the summary of a finished run, a type of which the run's log holds
\* no detection is a key of none of the per-type maps, whatever runs the
\* processor served before.
UndetectedTypeAbsent ==
    \A r \in DoneRuns : \A ty \in PiiTypes :
        LogCount(req[r].detections_log, ty) = 0 => ty \notin SummaryKeys(req[r].summary)

\* A table with header [name, id] and one data row whose id cell is a
\* checksum-valid national ID
NameIdTable(doc) ==
    /\ doc.ext = ".csv"
    /\ doc.header = << <<"n", "a", "m", "e">>, <<"i", "d">> >>
    /\ Len(doc.rows) = 1
    /\ doc.rows[1][2] # NoValue
    /\ Len(doc.rows[1][2]) = 12
    /\ OnlyDigits(doc.rows[1][2]) = doc.rows[1][2]
    /\ verhoeff_validate(doc.rows[1][2])

\* C17: a finished run at the default threshold on a table with header
\* [name, id] and one row whose id cell is a checksum-valid national ID has,
\* whatever the name cell holds, exactly one detection in its log, with
\* row_index 1 and column_name id.
NameIdRowOneDetection ==
    \A r \in DoneRuns :
        (NameIdTable(Documents[req[r].doc]) /\ req[r].confidence_threshold = DefaultThreshold)
            => /\ Len(req[r].detections_log) = 1
               /\ req[r].detections_log[1].row_index = 1
               /\ req[r].detections_log[1].column_name = <<"i", "d">>

\* C18: a call of process_file on an input whose extension is none of .csv,
\* .xls, .xlsx, .json, .txt and .pdf never completes and writes no file,
\* logs no detection and leaves the processor's counters as they were when
\* it began; once it has ended it has failed with the unsupported-format
\* error.
UnsupportedExtensionRejected ==
    \A r \in Requests :
        (req[r].pc # "idle"
         /\ Documents[req[r].doc].ext \notin {".csv", ".xls", ".xlsx", ".json", ".txt", ".pdf"})
            => /\ req[r].pc # "done"
               /\ req[r].written = <<>>
               /\ req[r].detections_log = <<>>
               /\ req[r].pc = "run" => Aggregates(processor) = req[r].entered
               /\ req[r].pc = "failed" =>
                     /\ req[r].error = "ValueError: unsupported file type"
                     /\ req[r].left = req[r].entered

\* A call on a .docx input has failed on a processor that had counted
\* detections in an earlier call
UnsupportedExtensionWitness ==
    \E r \in Requests :
        /\ req[r].pc = "failed"
        /\ Documents[req[r].doc].ext = ".docx"
        /\ req[r].error = "ValueError: unsupported file type"
        /\ DOMAIN req[r].entered.det_counts # {}
        /\ req[r].left = Aggregates(processor)

\* No two of the detections share a character of the field
PairwiseDisjoint(dets) ==
    \A i \in DOMAIN dets, j \in DOMAIN dets :
        i # j => (dets[i].end <= dets[j].start \/ dets[j].end <= dets[i].start)

\* text from offset from on, with the span of every detection of the set
\* replaced by its masked value, the leftmost first
RECURSIVE SpansReplaced(_, _, _)
SpansReplaced(text, from, dets) ==
    IF dets = {} THEN Slice(text, from, Len(text))
    ELSE LET d == CHOOSE d \in dets : \A e \in dets : d.start <= e.start
         IN  Slice(text, from, d.start) \o d.masked_value
             \o SpansReplaced(text, d.end, dets \ {d})

\* C19: when the accepted matches of a field are pairwise non-overlapping,
\* the redacted field is the original text with each accepted span
\* [start, end) replaced by the match's masked value and every other
\* character unchanged and in order, whatever the lengths of the masked
\* values.
DisjointSpansReplaced ==
    PairwiseDisjoint(last.detections)
        => last.new_text = SpansReplaced(last.text, 0, Range(last.detections))

\* A field with three disjoint accepted matches, the leftmost replaced by a
\* value longer than its span, has been redacted
DisjointSpansWitness ==
    /\ Len(last.detections) >= 3
    /\ PairwiseDisjoint(last.detections)
    /\ \E i \in DOMAIN last.detections, j \in DOMAIN last.detections :
          /\ last.detections[i].start < last.detections[j].start
          /\ Len(last.detections[i].masked_value)
                 > last.detections[i].end - last.detections[i].start
    /\ Len(last.new_text) > Len(last.text)

\* The validator of a type applied to a candidate; FALSE for the types that
\* have none (email, pan, bank_account)
ValidatorPasses(pii_type, match_text) ==
    CASE pii_type = "credit_card"     -> luhn_check(match_text)
      [] pii_type = "aadhaar"         -> /\ Len(OnlyDigits(match_text)) = 12
                                         /\ verhoeff_validate(OnlyDigits(match_text))
      [] pii_type = "phone"           -> validate_indian_phone(match_text)
      [] pii_type = "ifsc"            -> validate_ifsc(match_text)
      [] pii_type = "voter_id"        -> validate_voter_id(match_text)
      [] pii_type = "driving_license" -> validate_driving_license(match_text)
      [] pii_type = "ip_address"      -> validate_ip(match_text)
      [] pii_type = "dob"             -> validate_dob(match_text)
      [] pii_type = "medical_id"      -> validate_medical_id(match_text)
      [] OTHER                        -> FALSE

\* C20: the confidence of every candidate of every type is in [0, 1]
\* (0..100 hundredths); it is 0.9 or more only when the type's validator
\* passes, and at most 0.7 whenever the validator fails or the type has no
\* validator.
ConfidenceFollowsValidator ==
    \A c \in Range(ScoredCandidates(last.text, last.context)) :
        /\ 0 <= c.confidence /\ c.confidence <= 100
        /\ c.confidence >= 90 => ValidatorPasses(c.pii_type, c.group)
        /\ ~ValidatorPasses(c.pii_type, c.group) => c.confidence <= 70

\* num with one digit changed to a different digit
SingleDigitChanges(num) ==
    UNION {{[num EXCEPT ![i] = d] : d \in Digit \ {num[i]}} : i \in DOMAIN num}

\* num with two adjacent unequal digits swapped
AdjacentSwaps(num) ==
    {[num EXCEPT ![i] = num[i + 1], ![i + 1] = num[i]] :
        i \in {k \in 1..(Len(num) - 1) : num[k] # num[k + 1]}}

\* C21: for every digit string verhoeff_validate accepts, the string with
\* any one digit changed to a different digit, or with any two adjacent
\* unequal digits swapped, is rejected by verhoeff_validate.
VerhoeffDetectsErrors ==
    (call.fn = "verhoeff_validate" /\ call.pc = "returned" /\ call.result)
        => \A m \in SingleDigitChanges(call.arg) \cup AdjacentSwaps(call.arg) :
              ~verhoeff_validate(m)

\* verhoeff_validate has accepted a 12-digit string other than the national
\* ID of the documents, one with adjacent unequal digits
VerhoeffWitness ==
    /\ call.fn = "verhoeff_validate"
    /\ call.pc = "returned"
    /\ call.result
    /\ Len(call.arg) = 12
    /\ call.arg # BaseId
    /\ AdjacentSwaps(call.arg) # {}

\* ip is 4 dot-separated parts, each a decimal number in 0..255
FourOctets(ip) ==
    /\ Len(Split(ip, ".")) = 4
    /\ \A k \in DOMAIN Split(ip, ".") :
          LET p == Split(ip, ".")[k]
          IN  /\ p # <<>>
              /\ Range(p) \subseteq Digit
              /\ IntOf(p) <= 255

\* C22: validate_ip returns true exactly when its argument consists of 4
\* dot-separated parts each of which is a decimal number in 0..255, and false
\* for every other string, those with empty or non-numeric parts included.
ValidateIpExact ==
    (call.fn = "validate_ip" /\ call.pc = "returned")
        => (call.result <=> FourOctets(call.arg))

\* The runs of the tabular and the record-list adapter that got to their loop
TableRuns ==
    {r \in Requests : /\ req[r].pc \in {"run", "done"}
                      /\ ReadError(Documents[req[r].doc]) = ""
                      /\ Documents[req[r].doc].ext \in {".csv", ".xls", ".xlsx", ".json"}}

\* The number of data rows (or records) of a document
DataRows(doc) == IF doc.ext = ".json" THEN Len(doc.data) ELSE Len(doc.rows)

\* The names of the columns of data row r_i (the keys of record r_i), in order
ColumnNames(doc, r_i) ==
    IF doc.ext = ".json" THEN [j \in DOMAIN doc.data[r_i] |-> doc.data[r_i][j][1]]
    ELSE doc.header

\* The text of the cell of data row r_i in the column at position c
CellText(doc, r_i, c) ==
    LET val == IF doc.ext = ".json" THEN doc.data[r_i][c][2] ELSE doc.rows[r_i][c]
    IN  IF val = NoValue THEN <<>> ELSE val

\* The detection names a cell of the document and holds what is at its
\* offsets in that cell
FoundInItsCell(doc, d) ==
    /\ d.row_index \in 1..DataRows(doc)
    /\ \E c \in DOMAIN ColumnNames(doc, d.row_index) :
          /\ ColumnNames(doc, d.row_index)[c] = d.column_name
          /\ Slice(CellText(doc, d.row_index, c), d.start, d.end) = d.raw_value
          /\ d.start < d.end

\* Detection d is not after detection e in the traversal: an earlier row, or
\* the same row and an earlier column, or the same cell and no greater start
NotAfter(doc, d, e) ==
    \/ d.row_index < e.row_index
    \/ /\ d.row_index = e.row_index
       /\ IndexOf(d.column_name, ColumnNames(doc, d.row_index))
              < IndexOf(e.column_name, ColumnNames(doc, d.row_index))
    \/ /\ d.row_index = e.row_index
       /\ d.column_name = e.column_name
       /\ d.start <= e.start

\* The log of every tabular or record-list run is in traversal order and
\* each of its detections names the cell it was found in
LogInTraversalOrder ==
    \A r \in TableRuns :
        LET doc == Documents[req[r].doc]
            log == req[r].detections_log
        IN  /\ \A i \in DOMAIN log : FoundInItsCell(doc, log[i])
            /\ \A i \in 1..(Len(log) - 1) : NotAfter(doc, log[i], log[i + 1])

\* A step of a run only appends to its log, and a finished run's log stays
LogAppendOnly ==
    \A r \in Requests :
        /\ (req[r].pc = "run" /\ req'[r].pc \in {"run", "done", "failed"})
              => /\ Len(req'[r].detections_log) >= Len(req[r].detections_log)
                 /\ SubSeq(req'[r].detections_log, 1, Len(req[r].detections_log))
                        = req[r].detections_log
        /\ (req[r].pc = "done" /\ req'[r].pc = "done")
              => req'[r].detections_log = req[r].detections_log

\* C23: the detection log of a tabular or record-list run is append-only and
\* ordered by traversal: detections appear in non-decreasing row_index,
\* within a row in column (or key) order, and within a cell in
\* non-decreasing start offset; each detection carries the 1-based data-row
\* index and the column name of the cell it was found in.
LogOrderedByTraversal == [](LogInTraversalOrder) /\ [][LogAppendOnly]_vars

\* A finished tabular run whose log has detections of two rows, of two
\* columns of one row, and two of one cell
TraversalWitness ==
    \E r \in DoneRuns :
        LET log == req[r].detections_log
        IN  /\ Documents[req[r].doc].ext = ".csv"
            /\ \E i \in DOMAIN log, j \in DOMAIN log :
                  log[i].row_index < log[j].row_index
            /\ \E i \in DOMAIN log, j \in DOMAIN log :
                  /\ log[i].row_index = log[j].row_index
                  /\ log[i].column_name # log[j].column_name
            /\ \E i \in DOMAIN log, j \in DOMAIN log :
                  /\ log[i].row_index = log[j].row_index
                  /\ log[i].column_name = log[j].column_name
                  /\ log[i].start < log[j].start

\* The types whose replacement has the shape of the type again
ReshapedTypes == {"ifsc", "medical_id"}

\* The detections of the latest field's redacted text, fed through the
\* engine again on the same processor
DetectedAgain ==
    deidentify_text_enhanced(processor, last.new_text, last.new_text).detections

\* C24: redaction is not idempotent.  The replacement of every accepted bank
\* routing code or medical ID matches its type's pattern from end to end,
\* passes the type's validator and scores no less than the value it
\* replaces; and the redacted text of a field with such a detection, fed
\* through the engine again at the same threshold, yields a non-empty
\* detection list in which the replacement is detected as that type.
ReplacementDetectedAgain ==
    \A i \in DOMAIN last.detections :
        LET d == last.detections[i]
        IN  d.pii_type \in ReshapedTypes =>
                /\ ENHANCED_PII_PATTERNS(d.pii_type, d.masked_value, 1)
                       = Len(d.masked_value) + 1
                /\ ValidatorPasses(d.pii_type, d.masked_value)
                /\ calculate_confidence(d.pii_type, d.masked_value, last.new_text)
                       >= d.confidence
                /\ DetectedAgain # <<>>
                /\ \E j \in DOMAIN DetectedAgain :
                      /\ DetectedAgain[j].pii_type = d.pii_type
                      /\ DetectedAgain[j].raw_value = d.masked_value

\* A field with a bank routing code and a medical ID has been redacted, and
\* its redacted text holds both replacements
ReplacementWitness ==
    /\ \E i \in DOMAIN last.detections : last.detections[i].pii_type = "ifsc"
    /\ \E i \in DOMAIN last.detections : last.detections[i].pii_type = "medical_id"
    /\ \A i \in DOMAIN last.detections :
          Contains(last.new_text, last.detections[i].masked_value)
    /\ last.new_text # last.text
    /\ Len(DetectedAgain) = 2

====
